---- MODULE Spec2Model ----
(***************************************************************************)
(* Model of scripts/generate_voices_free.py: the voice resolver            *)
(* (get_voice_for_personality), the audio generator (generate_audio), the  *)
(* batch driver (process_personality_file) and main.                       *)
(*                                                                         *)
(* Python strings that the code searches (names, themes, response ids)     *)
(* are sequences of one-character strings, so that `x in s` is a real      *)
(* substring search and str.lower() a real conversion.                     *)
(***************************************************************************)
EXTENDS Integers, Sequences, FiniteSets, TLC

VARIABLES
    query,        \* voice resolver: the (name, theme, id) it is called with
    resolved,     \* voice resolver: "none", or its locals and result at return
    whiteExists,  \* os.path.exists(white_dir)
    outDirExists, \* os.path.exists(OUTPUT_DIR)
    eagerOpen,    \* whether communicate.save creates the output file before
                  \* it first suspends (TRUE) or only once it has the audio
    listing,      \* os.listdir(white_dir): the directory's entries, in order
    audio,        \* the names <id>.mp3 present in OUTPUT_DIR, as the set of ids
    mainpc,       \* position of main()
    files,        \* main's local `files`
    fidx,         \* index into files of the file being processed
    tasks,        \* process_personality_file's local `tasks`
    tstate,       \* state of each coroutine of `tasks`
    nstart,       \* how often each coroutine of `tasks` was started
    i,            \* process_personality_file's loop variable i
    calls,        \* number of synthesis calls made so far
    loaded,       \* number of personality files opened so far
    created       \* number of generation tasks created so far

vars == <<query, resolved, whiteExists, outDirExists, eagerOpen, listing,
          audio, mainpc,
          files, fidx, tasks, tstate, nstart, i, calls, loaded,
          created>>

voiceVars == <<query, resolved>>
driverVars == <<whiteExists, outDirExists, eagerOpen, listing, audio, mainpc,
                files, fidx,
                tasks, tstate, nstart, i, calls, loaded, created>>

-----------------------------------------------------------------------------
(* Bounds of the model *)

MaxIdParts == 2
MaxNameParts == 1
MaxFiles == 2

-----------------------------------------------------------------------------
(* String literals of the source, as character sequences *)

S_king == <<"k","i","n","g">>
S_queen == <<"q","u","e","e","n">>
S_rook == <<"r","o","o","k">>
S_bishop == <<"b","i","s","h","o","p">>
S_knight == <<"k","n","i","g","h","t">>
S_italian == <<"i","t","a","l","i","a","n">>
S_french == <<"f","r","e","n","c","h">>
S_sicilian == <<"s","i","c","i","l","i","a","n">>
S_cleric == <<"c","l","e","r","i","c">>
S_royal == <<"r","o","y","a","l">>
S_russian == <<"r","u","s","s","i","a","n">>
S_default == <<"d","e","f","a","u","l","t">>

(* `w in s` of Python: w occurs as a contiguous substring of s *)
Contains(s, w) ==
    \E k \in 0..(Len(s) - Len(w)) : SubSeq(s, k + 1, k + Len(w)) = w

UpperLetters == <<"A","B","C","D","E","F","G","H","I","J","K","L","M",
                  "N","O","P","Q","R","S","T","U","V","W","X","Y","Z">>
LowerLetters == <<"a","b","c","d","e","f","g","h","i","j","k","l","m",
                  "n","o","p","q","r","s","t","u","v","w","x","y","z">>

LowerChar(c) ==
    IF \E k \in 1..Len(UpperLetters) : UpperLetters[k] = c
    THEN LowerLetters[CHOOSE k \in 1..Len(UpperLetters) : UpperLetters[k] = c]
    ELSE c

(* str.lower() *)
Lower(s) == [k \in 1..Len(s) |-> LowerChar(s[k])]

(* dict.get(key, default) *)
Get(d, key, dflt) == IF key \in DOMAIN d THEN d[key] ELSE dflt

-----------------------------------------------------------------------------
(* Voice resolver *)

THEME_MAPPING ==
    [default  |-> [king   |-> "en-GB-RyanNeural",
                   queen  |-> "en-GB-SoniaNeural",
                   rook   |-> "en-US-ChristopherNeural",
                   bishop |-> "en-GB-ThomasNeural",
                   knight |-> "en-US-GuyNeural",
                   pawn   |-> "en-US-AnaNeural"],
     italian  |-> [default |-> "it-IT-DiegoNeural",
                   queen   |-> "it-IT-ElsaNeural"],
     french   |-> [default |-> "fr-FR-HenriNeural",
                   queen   |-> "fr-FR-DeniseNeural"],
     sicilian |-> [default |-> "it-IT-IsabellaNeural",
                   bishop  |-> "it-IT-DiegoNeural"],
     royal    |-> [default |-> "en-GB-RyanNeural",
                   bishop  |-> "en-IE-ConnorNeural"],
     russian  |-> [default |-> "ru-RU-DmitryNeural",
                   queen   |-> "ru-RU-SvetlanaNeural"]]

DEFAULT_MAPPING == THEME_MAPPING["default"]

(* a plausible slip: the knight test placed ahead of the king test *)
role_of_knight_first(response_id) ==
    IF Contains(response_id, S_knight) THEN "knight"
    ELSE IF Contains(response_id, S_king) THEN "king"
    ELSE IF Contains(response_id, S_queen) THEN "queen"
    ELSE IF Contains(response_id, S_rook) THEN "rook"
    ELSE IF Contains(response_id, S_bishop) THEN "bishop"
    ELSE "pawn"

(* "Determine role from ID" *)
role_of(response_id) ==
    IF Contains(response_id, S_king) THEN "king"
    ELSE IF Contains(response_id, S_queen) THEN "queen"
    ELSE IF Contains(response_id, S_rook) THEN "rook"
    ELSE IF Contains(response_id, S_bishop) THEN "bishop"
    ELSE IF Contains(response_id, S_knight) THEN "knight"
    ELSE "pawn"

(* a plausible slip: the names compared without lower-casing them *)
theme_key_of_no_lower(personality_name, personality_theme) ==
    LET p_name == personality_name
        p_theme == personality_theme
    IN  IF Contains(p_name, S_italian) \/ Contains(p_theme, S_italian)
          THEN "italian"
        ELSE IF Contains(p_name, S_french) \/ Contains(p_theme, S_french)
          THEN "french"
        ELSE IF Contains(p_name, S_sicilian) \/ Contains(p_theme, S_sicilian)
          THEN "sicilian"
        ELSE IF Contains(p_name, S_cleric) \/ Contains(p_theme, S_royal)
          THEN "royal"
        ELSE IF Contains(p_name, S_russian) \/ Contains(p_theme, S_russian)
          THEN "russian"
        ELSE "default"

(* "Determine theme key" *)
theme_key_of(personality_name, personality_theme) ==
    LET p_name == Lower(personality_name)
        p_theme == Lower(personality_theme)
    IN  IF Contains(p_name, S_italian) \/ Contains(p_theme, S_italian)
          THEN "italian"
        ELSE IF Contains(p_name, S_french) \/ Contains(p_theme, S_french)
          THEN "french"
        ELSE IF Contains(p_name, S_sicilian) \/ Contains(p_theme, S_sicilian)
          THEN "sicilian"
        ELSE IF Contains(p_name, S_cleric) \/ Contains(p_theme, S_royal)
          THEN "royal"
        ELSE IF Contains(p_name, S_russian) \/ Contains(p_theme, S_russian)
          THEN "russian"
        ELSE "default"

(* a plausible slip: the global default of the role tried before the theme's
   own default *)
lookup_voice_global_first(theme_key, role) ==
    LET theme_voices == Get(THEME_MAPPING, theme_key, DEFAULT_MAPPING)
    IN  Get(theme_voices, role,
            Get(DEFAULT_MAPPING, role,
                Get(theme_voices, "default", "en-US-AriaNeural")))

(* "Look up voice" *)
lookup_voice(theme_key, role) ==
    LET theme_voices == Get(THEME_MAPPING, theme_key, DEFAULT_MAPPING)
    IN  Get(theme_voices, role,
            Get(theme_voices, "default",
                Get(DEFAULT_MAPPING, role, "en-US-AriaNeural")))

get_voice_for_personality(personality_name, personality_theme, response_id) ==
    lookup_voice(theme_key_of(personality_name, personality_theme),
                 role_of(response_id))

-----------------------------------------------------------------------------
(* Inputs of the voice resolver *)

RECURSIVE Concats(_, _)
(* the concatenations of at most n fragments *)
Concats(frags, n) ==
    IF n = 0 THEN {<< >>}
    ELSE LET prev == Concats(frags, n - 1)
         IN  prev \cup {p \o f : p \in prev, f \in frags}

IdFragments ==
    {S_king, S_queen, S_rook, S_bishop, S_knight,
     <<"p","a","w","n">>, <<"K","i","n","g">>, <<"_">>}

NameFragments ==
    {<<"I","t","a","l","i","a","n">>, S_french, S_sicilian, S_royal,
     S_cleric, S_russian, <<"B","o","t">>}

SampleThemes ==
    {S_default, <<"I","T","A","L","I","A","N">>, S_french, S_sicilian,
     <<"R","o","y","a","l">>, S_cleric, S_russian, S_russian \o S_french}

SampleIds == Concats(IdFragments, MaxIdParts)
SampleNames == Concats(NameFragments, MaxNameParts)

-----------------------------------------------------------------------------
(* Inputs of the batch driver: personality files *)

JSON_EXT == <<".","j","s","o","n">>

Id_king1 == S_king \o <<"1">>
Id_queen1 == S_queen \o <<"1">>
Id_rook1 == S_rook \o <<"1">>
Id_bishop1 == S_bishop \o <<"1">>
Id_knight1 == S_knight \o <<"1">>
Id_move1 == <<"m","o","v","e","1">>

Text_capture == <<"I take your ", "{capturedPiece}", "!">>
Text_plain == <<"Check.">>

(* six complete responses (one batch of five and one of one) and two
   responses that lack a key *)
BigContent ==
    [personalities |-> <<
        [name |-> <<"I","t","a","l","i","a","n">>, theme |-> S_default,
         responses |-> <<[id |-> Id_king1, text |-> Text_capture],
                         [id |-> Id_queen1, text |-> Text_plain],
                         [id |-> Id_move1],
                         [id |-> Id_move1, text |-> Text_plain]>>],
        [responses |-> <<[id |-> Id_rook1, text |-> Text_plain],
                         [text |-> Text_plain],
                         [id |-> Id_bishop1, text |-> Text_capture],
                         [id |-> Id_knight1, text |-> Text_plain]>>]>>]

(* the same response id twice in one batch *)
DupContent ==
    [personalities |-> <<
        [name |-> S_cleric, theme |-> S_royal,
         responses |-> <<[id |-> Id_king1, text |-> Text_plain],
                         [id |-> Id_king1, text |-> Text_capture]>>]>>]

EmptyContent == [personalities |-> << >>]

(* a directory entry: its name, whether json.load accepts it, its content *)
Entries ==
    {[name |-> <<"b","i","g">> \o JSON_EXT,
      parses |-> TRUE, content |-> BigContent],
     [name |-> <<"d","u","p">> \o JSON_EXT,
      parses |-> TRUE, content |-> DupContent],
     [name |-> <<"b","a","d">> \o JSON_EXT,
      parses |-> FALSE, content |-> EmptyContent],
     [name |-> <<"R","E","A","D","M","E">>,
      parses |-> FALSE, content |-> EmptyContent]}

RECURSIVE SeqsUpTo(_, _)
SeqsUpTo(S, n) ==
    IF n = 0 THEN {<< >>}
    ELSE LET prev == SeqsUpTo(S, n - 1)
         IN  prev \cup {Append(p, e) : p \in prev, e \in S}

(* os.listdir returns no name twice *)
Listings ==
    {l \in SeqsUpTo(Entries, MaxFiles) :
        \A a, b \in DOMAIN l : a # b => l[a].name # l[b].name}

InitialAudio == {{}, {Id_king1, Id_rook1}}

-----------------------------------------------------------------------------
(* Helpers of the batch driver *)

(* str.endswith *)
EndsWith(s, suffix) ==
    /\ Len(s) >= Len(suffix)
    /\ SubSeq(s, Len(s) - Len(suffix) + 1, Len(s)) = suffix

(* text.replace('{capturedPiece}', 'piece'), the text given as its pieces *)
replace_capturedPiece(text) ==
    [k \in 1..Len(text) |->
        IF text[k] = "{capturedPiece}" THEN "piece" ELSE text[k]]

RECURSIVE response_loop(_, _, _, _, _)
(* the inner loop: appends a task for each response from the k-th on *)
response_loop(acc, p_name, p_theme, responses, k) ==
    IF k > Len(responses) THEN acc
    ELSE LET response == responses[k]
         IN  IF "text" \in DOMAIN response /\ "id" \in DOMAIN response
             THEN response_loop(
                      Append(acc,
                             [text |-> replace_capturedPiece(response.text),
                              response_id |-> response.id,
                              voice |-> get_voice_for_personality(
                                            p_name, p_theme, response.id)]),
                      p_name, p_theme, responses, k + 1)
             ELSE response_loop(acc, p_name, p_theme, responses, k + 1)

RECURSIVE personality_loop(_, _, _)
(* the outer loop over content['personalities'] *)
personality_loop(acc, personalities, k) ==
    IF k > Len(personalities) THEN acc
    ELSE LET personality == personalities[k]
             p_name == Get(personality, "name", S_default)
             p_theme == Get(personality, "theme", S_default)
         IN  personality_loop(
                 response_loop(acc, p_name, p_theme,
                               Get(personality, "responses", << >>), 1),
                 personalities, k + 1)

(* a plausible slip: the task list built back to front *)
build_tasks_reversed(content) ==
    LET ts == personality_loop(<< >>, Get(content, "personalities", << >>), 1)
    IN  [k \in 1..Len(ts) |-> ts[Len(ts) + 1 - k]]

(* the `tasks` list of process_personality_file *)
build_tasks(content) ==
    personality_loop(<< >>, Get(content, "personalities", << >>), 1)

batch_size == 5

Min(a, b) == IF a < b THEN a ELSE b

Terminal == {"skipped", "generated", "failed"}

(* the indices of tasks[i:i + batch_size] *)
Batch == (i + 1)..Min(i + batch_size, Len(tasks))

(* a plausible slip: the range steps one too far *)
next_i_off_by_one == i + batch_size + 1

(* range(0, len(tasks), batch_size): the value of i after i *)
next_i == i + batch_size

(* a plausible slip: os.path.exists never consulted (forced refresh) *)
output_exists_ignored(response_id) == FALSE

(* os.path.exists(output_file) *)
output_exists(response_id) == response_id \in audio

(* a plausible slip: the gather returns as soon as one coroutine is done *)
gather_returns_on_first ==
    \E t \in Batch : tstate[t] \in Terminal

(* the awaited asyncio.gather returns: every coroutine of the batch is done *)
gather_returns ==
    \A t \in Batch : tstate[t] \in Terminal

(* a plausible slip: the white_dir test missing *)
white_dir_missing_unchecked == FALSE

(* not os.path.exists(white_dir) *)
white_dir_missing == ~whiteExists

-----------------------------------------------------------------------------
(* Initial states *)

NotResolved == [done |-> FALSE, role |-> "", theme_key |-> "", voice |-> ""]
NoQuery == [name |-> << >>, theme |-> << >>, id |-> << >>]

(* the state in which `python generate_voices_free.py` starts *)
Init ==
    /\ query = NoQuery
    /\ resolved = NotResolved
    /\ whiteExists \in BOOLEAN
    /\ outDirExists \in BOOLEAN
    /\ eagerOpen \in BOOLEAN
    /\ listing \in (IF whiteExists THEN Listings ELSE {<< >>})
    /\ audio \in (IF outDirExists THEN InitialAudio ELSE {{}})
    /\ mainpc = "start"
    /\ files = << >>
    /\ fidx = 0
    /\ tasks = << >>
    /\ tstate = << >>
    /\ nstart = << >>
    /\ i = 0
    /\ calls = 0
    /\ loaded = 0
    /\ created = 0

(* a call of get_voice_for_personality on any sample input *)
VInit ==
    /\ query \in [name : SampleNames, theme : SampleThemes, id : SampleIds]
    /\ resolved = NotResolved
    /\ whiteExists = FALSE
    /\ outDirExists = FALSE
    /\ eagerOpen = FALSE
    /\ listing = << >>
    /\ audio = {}
    /\ mainpc = "idle"
    /\ files = << >>
    /\ fidx = 0
    /\ tasks = << >>
    /\ tstate = << >>
    /\ nstart = << >>
    /\ i = 0
    /\ calls = 0
    /\ loaded = 0
    /\ created = 0

-----------------------------------------------------------------------------
(* The voice resolver, run to its return *)

Resolve ==
    /\ ~resolved.done
    /\ resolved' = [done |-> TRUE,
                    role |-> role_of(query.id),
                    theme_key |-> theme_key_of(query.name, query.theme),
                    voice |-> get_voice_for_personality(
                                  query.name, query.theme, query.id)]
    /\ UNCHANGED <<query, driverVars>>

-----------------------------------------------------------------------------
(* main *)

(* white_dir is missing: "Directory not found", return *)
MainAbort ==
    /\ mainpc = "start"
    /\ white_dir_missing
    /\ outDirExists' = TRUE
    /\ mainpc' = "aborted"
    /\ UNCHANGED <<voiceVars, whiteExists, eagerOpen, listing, audio, files,
                   fidx, tasks, tstate, nstart, i, calls, loaded, created>>

(* files = [f for f in os.listdir(white_dir) if f.endswith('.json')];
   os.listdir raises when the directory is not there *)
MainList ==
    /\ mainpc = "start"
    /\ ~white_dir_missing
    /\ outDirExists' = TRUE
    /\ IF whiteExists
       THEN /\ files' = SelectSeq(listing,
                                  LAMBDA f : EndsWith(f.name, JSON_EXT))
            /\ fidx' = 1
            /\ mainpc' = "loop"
       ELSE /\ mainpc' = "crashed"
            /\ UNCHANGED <<files, fidx>>
    /\ UNCHANGED <<voiceVars, whiteExists, eagerOpen, listing, audio, tasks,
                   tstate, nstart, i, calls, loaded, created>>

(* the loop over files is exhausted: print("Done!") *)
MainDone ==
    /\ mainpc = "loop"
    /\ fidx > Len(files)
    /\ mainpc' = "done"
    /\ UNCHANGED <<voiceVars, whiteExists, eagerOpen, outDirExists, listing,
                   audio, files, fidx, tasks, tstate, nstart, i, calls,
                   loaded, created>>

-----------------------------------------------------------------------------
(* process_personality_file *)

(* open, json.load and the two loops that build `tasks` *)
OpenFile ==
    /\ mainpc = "loop"
    /\ fidx <= Len(files)
    /\ files[fidx].parses
    /\ tasks' = build_tasks(files[fidx].content)
    /\ tstate' = [k \in 1..Len(tasks') |-> "created"]
    /\ nstart' = [k \in 1..Len(tasks') |-> 0]
    /\ i' = 0
    /\ loaded' = loaded + 1
    /\ created' = created + Len(tasks')
    /\ mainpc' = "batches"
    /\ UNCHANGED <<voiceVars, whiteExists, eagerOpen, outDirExists, listing,
                   audio, files, fidx, calls>>

(* json.load raises: nothing catches it, the run ends with the exception *)
OpenFileRaises ==
    /\ mainpc = "loop"
    /\ fidx <= Len(files)
    /\ ~files[fidx].parses
    /\ mainpc' = "crashed"
    /\ UNCHANGED <<voiceVars, whiteExists, eagerOpen, outDirExists, listing,
                   audio, files, fidx, tasks, tstate, nstart, i, calls,
                   loaded, created>>

(* for i in range(0, len(tasks), batch_size): the gather of the next batch *)
BatchStart ==
    /\ mainpc = "batches"
    /\ i < Len(tasks)
    /\ mainpc' = "gather"
    /\ UNCHANGED <<voiceVars, whiteExists, eagerOpen, outDirExists, listing,
                   audio, files, fidx, tasks, tstate, nstart, i, calls,
                   loaded, created>>

(* the gather returns and the loop steps to the next batch *)
GatherDone ==
    /\ mainpc = "gather"
    /\ gather_returns
    /\ i' = next_i
    /\ mainpc' = "batches"
    /\ UNCHANGED <<voiceVars, whiteExists, eagerOpen, outDirExists, listing,
                   audio, files, fidx, tasks, tstate, nstart, calls, loaded,
                   created>>

(* the range is exhausted: process_personality_file returns to main's loop *)
FileDone ==
    /\ mainpc = "batches"
    /\ i >= Len(tasks)
    /\ fidx' = fidx + 1
    /\ mainpc' = "loop"
    /\ UNCHANGED <<voiceVars, whiteExists, eagerOpen, outDirExists, listing,
                   audio, files, tasks, tstate, nstart, i, calls, loaded,
                   created>>

-----------------------------------------------------------------------------
(* generate_audio: the coroutines of the batch being gathered.  The event
   loop starts them in list order; each runs to its first suspension. *)

NextToStart(t) ==
    /\ t \in Batch
    /\ tstate[t] = "created"
    /\ \A u \in Batch : u < t => tstate[u] # "created"

(* "Skipping ... (already exists)": return *)
Skip(t) ==
    /\ mainpc = "gather"
    /\ NextToStart(t)
    /\ output_exists(tasks[t].response_id)
    /\ tstate' = [tstate EXCEPT ![t] = "skipped"]
    /\ nstart' = [nstart EXCEPT ![t] = @ + 1]
    /\ UNCHANGED <<voiceVars, whiteExists, eagerOpen, outDirExists, listing,
                   audio, mainpc, files, fidx, tasks, i, calls, loaded,
                   created>>

(* a plausible slip: no try/except, the exception leaves the coroutine and
   the gather, and ends the run *)
except_handler_missing(t) ==
    /\ tstate' = [tstate EXCEPT ![t] = "failed"]
    /\ mainpc' = "crashed"

(* except Exception as e: print("Failed to generate ...") *)
except_handler(t) ==
    /\ tstate' = [tstate EXCEPT ![t] = "failed"]
    /\ UNCHANGED mainpc

(* edge_tts.Communicate(text, voice) and the start of communicate.save: the
   coroutine suspends inside the library *)
Generate(t) ==
    /\ mainpc = "gather"
    /\ NextToStart(t)
    /\ ~output_exists(tasks[t].response_id)
    /\ tstate' = [tstate EXCEPT ![t] = "synth"]
    /\ nstart' = [nstart EXCEPT ![t] = @ + 1]
    /\ calls' = calls + 1
    /\ audio' = IF eagerOpen THEN audio \cup {tasks[t].response_id} ELSE audio
    /\ UNCHANGED <<voiceVars, whiteExists, eagerOpen, outDirExists, listing,
                   mainpc, files, fidx, tasks, i, loaded, created>>

(* the exception is raised before the coroutine ever suspends (by
   edge_tts.Communicate, or by communicate.save on its way to its first
   await): the coroutine is done within its first run *)
GenerateRaises(t) ==
    /\ mainpc = "gather"
    /\ NextToStart(t)
    /\ ~output_exists(tasks[t].response_id)
    /\ except_handler(t)
    /\ nstart' = [nstart EXCEPT ![t] = @ + 1]
    /\ calls' = calls + 1
    /\ UNCHANGED <<voiceVars, whiteExists, eagerOpen, outDirExists, listing,
                   audio, files, fidx, tasks, i, loaded, created>>

(* a suspended coroutine resumes only in a later iteration of the event
   loop, after every coroutine of the gathered batch has had its first run *)
BatchStarted == \A u \in Batch : tstate[u] # "created"

(* communicate.save returns: the file is written *)
SynthReturns(t) ==
    /\ t \in DOMAIN tstate
    /\ tstate[t] = "synth"
    /\ BatchStarted
    /\ tstate' = [tstate EXCEPT ![t] = "generated"]
    /\ audio' = audio \cup {tasks[t].response_id}
    /\ UNCHANGED <<voiceVars, whiteExists, eagerOpen, outDirExists, listing,
                   mainpc, files, fidx, tasks, nstart, i, calls, loaded,
                   created>>

(* communicate.save raises *)
SynthRaises(t) ==
    /\ t \in DOMAIN tstate
    /\ tstate[t] = "synth"
    /\ BatchStarted
    /\ except_handler(t)
    /\ UNCHANGED <<voiceVars, whiteExists, eagerOpen, outDirExists, listing,
                   audio, files, fidx, tasks, nstart, i, calls, loaded,
                   created>>

-----------------------------------------------------------------------------
(* Specifications *)

Next ==
    \/ MainAbort
    \/ MainList
    \/ MainDone
    \/ OpenFile
    \/ OpenFileRaises
    \/ BatchStart
    \/ GatherDone
    \/ FileDone
    \/ \E t \in DOMAIN tasks : Skip(t)
    \/ \E t \in DOMAIN tasks : Generate(t)
    \/ \E t \in DOMAIN tasks : GenerateRaises(t)
    \/ \E t \in DOMAIN tasks : SynthReturns(t)
    \/ \E t \in DOMAIN tasks : SynthRaises(t)

Spec == Init /\ [][Next]_vars

(* the event loop runs whatever is ready, and every synthesis call
   eventually returns or raises *)
FairSpec == Init /\ [][Next]_vars /\ WF_vars(Next)

VoiceSpec == VInit /\ [][Resolve]_vars

-----------------------------------------------------------------------------
(* Properties of the voice resolver, checked under VoiceSpec *)

RolePriority == <<"king", "queen", "rook", "bishop", "knight">>
RoleWord == [king |-> S_king, queen |-> S_queen, rook |-> S_rook,
             bishop |-> S_bishop, knight |-> S_knight]

ThemePriority == <<"italian", "french", "sicilian", "royal", "russian">>
ThemeWord == [italian |-> S_italian, french |-> S_french,
              sicilian |-> S_sicilian, royal |-> S_royal,
              russian |-> S_russian]

(* the first element of the priority list `order` that satisfies Hit *)
FirstHit(order, Hit(_), none) ==
    LET hits == {k \in 1..Len(order) : Hit(order[k])}
    IN  IF hits = {} THEN none
        ELSE order[CHOOSE k \in hits : \A m \in hits : k <= m]

(* C1: the voice returned is the theme's entry for the role when it has one,
   else the theme's 'default' entry when it has one, else the global default
   map's entry for the role, else 'en-US-AriaNeural'; so theme italian with
   role king gives the italian default voice, not the global king voice. *)
C1_VoiceFallbackChain ==
    resolved.done =>
        LET theme_voices == THEME_MAPPING[resolved.theme_key]
            role == resolved.role
        IN  /\ resolved.voice =
                  IF role \in DOMAIN theme_voices THEN theme_voices[role]
                  ELSE IF "default" \in DOMAIN theme_voices
                    THEN theme_voices["default"]
                  ELSE IF role \in DOMAIN DEFAULT_MAPPING
                    THEN DEFAULT_MAPPING[role]
                  ELSE "en-US-AriaNeural"
            /\ (resolved.theme_key = "italian" /\ role = "king")
                   => resolved.voice = "it-IT-DiegoNeural"
            /\ (resolved.theme_key = "italian" /\ role = "queen")
                   => resolved.voice = "it-IT-ElsaNeural"
            /\ (resolved.theme_key = "default" /\ role = "king")
                   => resolved.voice = "en-GB-RyanNeural"

C1_Witness ==
    /\ resolved.done
    /\ resolved.theme_key = "italian"
    /\ resolved.role = "king"
    /\ resolved.voice = "it-IT-DiegoNeural"

(* C2: the role is the first of king, queen, rook, bishop, knight that occurs
   as a substring of the response id, whatever its position in the id, and
   pawn when none occurs. *)
C2_RolePriority ==
    resolved.done =>
        resolved.role =
            FirstHit(RolePriority,
                     LAMBDA r : Contains(query.id, RoleWord[r]), "pawn")

C2_Witness ==
    /\ resolved.done
    /\ query.id = S_knight \o S_king
    /\ resolved.role = "king"

(* C9 as claimed: the theme key is the first of italian, french, sicilian,
   royal, russian whose word occurs in the lower-cased name or in the
   lower-cased theme, and default when none does. *)
C9_ThemeWordInNameOrTheme ==
    resolved.done =>
        resolved.theme_key =
            FirstHit(ThemePriority,
                     LAMBDA k : \/ Contains(Lower(query.name), ThemeWord[k])
                                \/ Contains(Lower(query.theme), ThemeWord[k]),
                     "default")

(* C9 amended: as claimed for italian, french, sicilian and russian; the key
   royal is selected when 'cleric' occurs in the lower-cased name or 'royal'
   in the lower-cased theme ('royal' in the name and 'cleric' in the theme do
   not select it). *)
C9_ThemeKeyPriority ==
    resolved.done =>
        resolved.theme_key =
            FirstHit(ThemePriority,
                     LAMBDA k :
                        IF k = "royal"
                        THEN \/ Contains(Lower(query.name), S_cleric)
                             \/ Contains(Lower(query.theme), S_royal)
                        ELSE \/ Contains(Lower(query.name), ThemeWord[k])
                             \/ Contains(Lower(query.theme), ThemeWord[k]),
                     "default")

C9_Witness ==
    /\ resolved.done
    /\ query.name = S_cleric
    /\ query.theme = S_russian
    /\ resolved.theme_key = "royal"

-----------------------------------------------------------------------------
(* Properties of the audio generator and the batch driver *)

InFlight == {t \in DOMAIN tstate : tstate[t] = "synth"}

(* every *.json entry of the directory is accepted by json.load *)
AllFilesParse ==
    \A k \in DOMAIN listing :
        EndsWith(listing[k].name, JSON_EXT) => listing[k].parses

RECURSIVE Flatten(_)
(* the concatenation of a sequence of sequences *)
Flatten(ss) == IF ss = << >> THEN << >> ELSE Head(ss) \o Flatten(Tail(ss))

(* every response of every personality of a file, in file order *)
AllResponses(content) ==
    Flatten([k \in DOMAIN content.personalities |->
                IF "responses" \in DOMAIN content.personalities[k]
                THEN content.personalities[k].responses ELSE << >>])

IsComplete(response) ==
    "id" \in DOMAIN response /\ "text" \in DOMAIN response

RECURSIVE SumSeq(_)
SumSeq(ns) == IF ns = << >> THEN 0 ELSE Head(ns) + SumSeq(Tail(ns))

(* the number of generation tasks the whole directory calls for *)
ExpectedTasks ==
    SumSeq([k \in DOMAIN files |->
               Len(SelectSeq(AllResponses(files[k].content), IsComplete))])

(* C3: a generate_audio coroutine that starts while <id>.mp3 exists ends
   skipped in that very step, which makes no synthesis call and changes no
   file; and a skipped coroutine is never run again. *)
C3_ExistingFileSkipped ==
    [][\A t \in DOMAIN tasks :
          /\ (/\ mainpc = "gather"
              /\ tstate[t] = "created"
              /\ tasks[t].response_id \in audio
              /\ tstate'[t] # "created")
             => (/\ tstate'[t] = "skipped"
                 /\ audio' = audio
                 /\ calls' = calls)
          /\ (tstate[t] = "skipped" /\ loaded' = loaded)
             => (tstate'[t] = "skipped" /\ nstart'[t] = nstart[t])]_vars

C3_Witness ==
    \E t \in DOMAIN tasks :
        /\ tstate[t] = "skipped"
        /\ tasks[t].response_id \in audio
        /\ calls = 0

(* C4: a synthesis failure changes neither main's position nor any other
   coroutine, the run is never ended by one (it ends abnormally only where a
   directory is listed or a file is loaded), and, the files being loadable,
   a run in which a synthesis failed still reaches 'Done'. *)
C4_FailureDoesNotAbort ==
    /\ [][\A t \in DOMAIN tstate :
             (tstate[t] = "synth" /\ tstate'[t] = "failed")
             => /\ mainpc' = mainpc
                /\ \A u \in DOMAIN tstate : u # t => tstate'[u] = tstate[u]]_vars
    /\ [][mainpc' = "crashed" => mainpc \in {"start", "loop", "crashed"}]_vars
    /\ (((\E t \in DOMAIN tstate : tstate[t] = "failed") /\ AllFilesParse)
           ~> (mainpc = "done"))

(* the queen1 coroutine of the first batch of the first file failed (its
   file is not there); the second batch and the second file were still run *)
C4_Witness ==
    /\ mainpc = "done"
    /\ ~eagerOpen
    /\ Len(files) = 2
    /\ files[1].content = BigContent
    /\ files[2].content = DupContent
    /\ loaded = 2
    /\ Id_queen1 \notin audio
    /\ Id_knight1 \in audio
    /\ tstate = <<"generated", "failed">>

(* C5: a coroutine is started only when every coroutine of the earlier
   batches of five is done, between two files every coroutine is done, and at
   most 5 synthesis calls are in flight. *)
C5_BatchesOfFive ==
    /\ Cardinality(InFlight) <= 5
    /\ \A t \in DOMAIN tstate :
          tstate[t] # "created"
          => \A u \in DOMAIN tstate :
                 ((u - 1) \div 5 < (t - 1) \div 5) => tstate[u] \in Terminal
    /\ \A t \in DOMAIN tstate :
          tstate[t] # "created"
          => \A u \in 1..(t - 1) : tstate[u] # "created"
    /\ mainpc \in {"loop", "done", "crashed"} => InFlight = {}
    /\ mainpc = "loop" => \A t \in DOMAIN tstate : tstate[t] \in Terminal

C5_Witness ==
    /\ Len(tasks) = 6
    /\ tstate[6] = "synth"
    /\ \E t \in 1..5 : tstate[t] = "failed"
    /\ \E t \in 1..5 : tstate[t] = "generated"

(* C6: when the white directory is missing, main ends in its early return:
   no file is loaded, no task created, no synthesis call made, and 'Done' is
   not reached. *)
C6_MissingDirAborts ==
    (~whiteExists /\ mainpc # "start")
    => /\ mainpc = "aborted"
       /\ loaded = 0
       /\ created = 0
       /\ calls = 0
       /\ tasks = << >>
   
C6_Witness == ~whiteExists /\ mainpc = "aborted" /\ outDirExists

(* C7 as claimed: every response of every personality of the loaded file
   has exactly one task, in file order. *)
C7_EveryResponseOneTask ==
    mainpc \in {"batches", "gather"}
    => LET rs == AllResponses(files[fidx].content)
       IN  /\ Len(tasks) = Len(rs)
           /\ \A k \in DOMAIN tasks :
                 "id" \in DOMAIN rs[k] => tasks[k].response_id = rs[k].id

(* C7 amended: every response that has both an 'id' and a 'text' has exactly
   one task, in file order; a response lacking either has none. *)
C7_EveryCompleteResponseOneTask ==
    mainpc \in {"batches", "gather"}
    => LET rs == SelectSeq(AllResponses(files[fidx].content), IsComplete)
       IN  /\ Len(tasks) = Len(rs)
           /\ \A k \in DOMAIN tasks :
                 /\ tasks[k].response_id = rs[k].id
                 /\ Len(tasks[k].text) = Len(rs[k].text)
                 /\ \A m \in DOMAIN rs[k].text :
                       rs[k].text[m] # "{capturedPiece}"
                       => tasks[k].text[m] = rs[k].text[m]

C7_Witness ==
    /\ mainpc = "batches"
    /\ i = 0
    /\ files[fidx].content = BigContent
    /\ Len(tasks) = 6
    /\ tasks[3].response_id = Id_move1
    /\ tasks[4].response_id = Id_rook1

C10_RunTerminates ==
    /\ ((whiteExists /\ AllFilesParse) ~> (mainpc = "done"))
    /\ [](mainpc = "done"
          => /\ created = ExpectedTasks
             /\ loaded = Len(files)
             /\ calls <= created
             /\ \A t \in DOMAIN tstate :
                   nstart[t] = 1 /\ tstate[t] \in Terminal)
    /\ [][(mainpc = "batches" /\ mainpc' = "loop")
          => \A t \in DOMAIN tstate : nstart[t] = 1 /\ tstate[t] \in Terminal]_vars
    /\ [][\A t \in DOMAIN tstate :
             (tstate[t] \in Terminal /\ loaded' = loaded)
             => (tstate'[t] = tstate[t] /\ nstart'[t] = nstart[t])]_vars

C10_Witness ==
    /\ mainpc = "done"
    /\ created = 8
    /\ Len(tasks) = 6
    /\ \E t \in DOMAIN tstate : tstate[t] = "skipped"
    /\ \E t \in DOMAIN tstate : tstate[t] = "generated"
    /\ \E t \in DOMAIN tstate : tstate[t] = "failed"

====
